---- MODULE Spec2Model ----
(***************************************************************************)
(* The weston-launch client side of the session launcher                   *)
(* (libweston/launcher-weston-launch.c): one launcher connection, the      *)
(* compositor's session flag, the event loop's idle list, and the helper   *)
(* process as the peer on the control socket.                              *)
(*                                                                         *)
(* The control socket carries whole messages (the helper writes one        *)
(* message per send); chan is the queue of helper->client messages that    *)
(* are in flight.  The compositor is single-threaded: pc is "loop" while   *)
(* control is in the event loop and "open_wait" while a call of            *)
(* launcher_weston_launch_open is blocked in recvmsg().                    *)
(*                                                                         *)
(* Spec starts from a connection as launcher_weston_launch_connect leaves  *)
(* it and runs the protocol.  ConnectSpec starts before the connect, from  *)
(* what the environment can hold, and follows the connection to its end    *)
(* (destroy, or the exit on a hangup) with every result the ioctl() calls  *)
(* of the restoration can have.                                            *)
(***************************************************************************)
EXTENDS Integers, Sequences, FiniteSets, TLC

VARIABLES
    env,                  \* the environment: WESTON_LAUNCHER_SOCK, WESTON_TTY_FD
    open_fds,             \* the inherited descriptors that are open in the process
    out,                  \* launcher_weston_launch_connect has assigned *out
    conn,                 \* "none" (before connect) | "failed" (connect failed) |
                          \* "live" | "destroyed" (freed) | "exited" (exit() called)
    pc,                   \* "loop" | "open_wait"
    fd,                   \* launcher->fd, the control socket
    tty,                  \* launcher->tty
    kb_mode,              \* launcher->kb_mode
    drm_fd,               \* launcher->drm_fd
    deferred_deactivate,  \* launcher->deferred_deactivate
    idle,                 \* number of idle_deactivate callbacks on the event loop
    session_active,       \* compositor->session_active
    chan,                 \* helper -> client messages in flight (their ids)
    helper,               \* "up" | "hung" (sends nothing more) | "closed"
    outstanding,          \* OPEN requests the helper has received and not answered
    fx,                   \* what the last launcher operation did, in order
    op,                   \* the step taken last
    mask,                 \* the event mask of the last launcher_weston_launch_data
    call,                 \* the current / last launcher_weston_launch_open call
    opens,                \* open calls started
    notifs,               \* notifications the helper has sent
    recvfails,            \* failed recv() calls in launcher_weston_launch_data
    undelivered,          \* DEACTIVATEs deferred minus deferred DEACTIVATEs delivered
    unacked,              \* DEACTIVATEs consumed minus DEACTIVATE_DONE sent
    exit_status           \* the process's exit status once conn = "exited"

vars == <<env, open_fds, out, conn, pc, fd, tty, kb_mode, drm_fd,
          deferred_deactivate, idle,
          session_active, chan,
          helper, outstanding, fx, op, mask, call, opens, notifs, recvfails,
          undelivered, unacked, exit_status>>

(* ------------------------------ bounds -------------------------------- *)
MaxOpens == 2
MaxNotifs == 2
MaxQueue == 2
MaxEintr == 1
MaxRecvFail == 1

(* --------------------------- wire messages ---------------------------- *)
\* struct { int id; int ret; } event: sizeof event and sizeof event.id
SizeofEvent == 8
SizeofEventId == 4

NoAnc == [kind |-> "none", fd |-> -1]
WrongAnc == [kind |-> "wrong", fd |-> 7]
Rights(d) == [kind |-> "rights", fd |-> d]

\* the ancillary data an OPEN_REPLY can carry
Ancs == {NoAnc, WrongAnc, Rights(-1), Rights(7)}

\* the replies the helper sends: a refusal (with or without a descriptor
\* attached), or a result of 0 with any of the ancillary data
Notification(id) == [id |-> id, len |-> SizeofEventId, ret |-> 0, anc |-> NoAnc]
OpenReply(ret, anc) == [id |-> "OPEN_REPLY", len |-> SizeofEvent, ret |-> ret, anc |-> anc]
NoReply == [id |-> "none", len |-> 0, ret |-> 0, anc |-> NoAnc]

\* what the helper's OPEN_REPLY holds when recvmsg() returns it: a refusal
\* (with or without a descriptor attached), or a result of 0 with any of the
\* ancillary data
Replies ==
    { OpenReply(-1, NoAnc), OpenReply(-1, Rights(7)) } \cup { OpenReply(0, a) : a \in Ancs }

\* what an unset int can hold where the code switches on it
EventIds == {"OPEN_REPLY", "ACTIVATE", "DEACTIVATE"}

(* ------------------------- observable effects ------------------------- *)
\* c is the compositor side a handler acts on: [session_active, fx].
\* Every effect is logged with the session flag it found; a system call also
\* with the argument that matters and with whether it failed.
Syscall(c, name, arg, failed) ==
    [c EXCEPT !.fx = Append(@, [ev |-> name, active |-> c.session_active,
                                arg |-> arg, failed |-> failed])]

Effect(c, name) == Syscall(c, name, 0, FALSE)

wl_signal_emit(c) == Effect(c, "session_signal")

\* outs: what send() returns, call after call ("EINTR", "ok" or "err");
\* every send() call is logged as the effect `name`
RECURSIVE launcher_weston_launch_send(_, _, _)
launcher_weston_launch_send(c, name, outs) ==
    IF Len(outs) > 1 /\ Head(outs) = "EINTR"
    THEN launcher_weston_launch_send(Effect(c, name), name, Tail(outs))
    ELSE [c |-> Effect(c, name), ok |-> (Head(outs) = "ok")]

RECURSIVE Interrupted(_)
Interrupted(k) == IF k = 0 THEN <<>> ELSE <<"EINTR">> \o Interrupted(k - 1)

\* send() interrupted up to MaxEintr times, then succeeding or failing for good
SendOutcomes == { Interrupted(k) \o <<f>> : k \in 0..MaxEintr, f \in {"ok", "err"} }

\* the acknowledgement sent before the flag is cleared and the signal emitted
handle_deactivate_AckFirst(c) ==
    LET c1 == Effect(c, "send_DEACTIVATE_DONE")
        c2 == [c1 EXCEPT !.session_active = FALSE]
    IN  wl_signal_emit(c2)

\* handle_deactivate(): the acknowledgement goes out through
\* launcher_weston_launch_send, whose result is dropped
handle_deactivate(c) ==
    LET c1 == [c EXCEPT !.session_active = FALSE]
        c2 == wl_signal_emit(c1)
    IN  Effect(c2, "send_DEACTIVATE_DONE")

Comp == [session_active |-> session_active, fx |-> <<>>]

(* ------------------------------ launcher ------------------------------ *)
\* l is the launcher with the compositor it points to and the idle callbacks
\* that point to it: [fd, tty, kb_mode, drm_fd, deferred_deactivate, idle, c],
\* c = [session_active, fx]
Launcher ==
    [fd |-> fd, tty |-> tty, kb_mode |-> kb_mode, drm_fd |-> drm_fd,
     deferred_deactivate |-> deferred_deactivate, idle |-> idle, c |-> Comp]

Count(s, name) == Cardinality({ i \in DOMAIN s : s[i].ev = name })

\* K_UNICODE of <linux/kd.h>
K_UNICODE == 3

\* which ioctl() calls of the restoration fail; KDSKBMODE has a result only
\* where it is called
IoResults ==
    { io \in [mute : BOOLEAN, kbmode : BOOLEAN, setmode : BOOLEAN, vt : BOOLEAN] :
        io.kbmode => io.mute }
IoOk == [mute |-> FALSE, kbmode |-> FALSE, setmode |-> FALSE, vt |-> FALSE]

\* the results that differ in the one call the restoration branches on
MuteResults == { io \in IoResults : ~io.kbmode /\ ~io.setmode /\ ~io.vt }

\* the restoration given up at the first call that fails
launcher_weston_launch_restore_StopOnFailure(l, io) ==
    LET c1 == Syscall(l.c, "ioctl_KDSKBMUTE", 0, io.mute)
        c2 == IF io.mute THEN Syscall(c1, "ioctl_KDSKBMODE", l.kb_mode, io.kbmode) ELSE c1
        c3 == IF io.mute /\ io.kbmode THEN Effect(c2, "log_failed_kb_mode") ELSE c2
        c4 == Syscall(c3, "ioctl_KDSETMODE", 0, io.setmode)
        c5 == Effect(c4, "log_failed_KD_TEXT")
        c6 == Syscall(c4, "drmDropMaster", l.drm_fd, l.drm_fd = -1)
        c7 == Syscall(c6, "ioctl_VT_SETMODE", 0, io.vt)
    IN  IF io.mute /\ io.kbmode THEN c3
        ELSE IF io.setmode THEN c5
        ELSE IF io.vt THEN Effect(c7, "log_failed_vt_reset") ELSE c7

\* launcher_weston_launch_restore(): KDSKBMODE is the right operand of &&,
\* called if KDSKBMUTE returned nonzero; the result of drmDropMaster() is
\* dropped (it fails on a descriptor that is not open)
launcher_weston_launch_restore(l, io) ==
    LET c1 == Syscall(l.c, "ioctl_KDSKBMUTE", 0, io.mute)
        c2 == IF io.mute THEN Syscall(c1, "ioctl_KDSKBMODE", l.kb_mode, io.kbmode) ELSE c1
        c3 == IF io.mute /\ io.kbmode THEN Effect(c2, "log_failed_kb_mode") ELSE c2
        c4 == Syscall(c3, "ioctl_KDSETMODE", 0, io.setmode)
        c5 == IF io.setmode THEN Effect(c4, "log_failed_KD_TEXT") ELSE c4
        c6 == Syscall(c5, "drmDropMaster", l.drm_fd, l.drm_fd = -1)
        c7 == Syscall(c6, "ioctl_VT_SETMODE", 0, io.vt)
    IN  IF io.vt THEN Effect(c7, "log_failed_vt_reset") ELSE c7

\* the flag left set when the deactivation is handled
idle_deactivate_NoClear(l) ==
    IF l.deferred_deactivate # 0
    THEN [l EXCEPT !.c = handle_deactivate(l.c)]
    ELSE l

\* the deactivation handled whatever the flag holds
idle_deactivate_Unguarded(l) ==
    [l EXCEPT !.deferred_deactivate = 0, !.c = handle_deactivate(l.c)]

\* idle_deactivate(): one scheduled callback runs
idle_deactivate(l) ==
    IF l.deferred_deactivate # 0
    THEN [l EXCEPT !.deferred_deactivate = 0, !.c = handle_deactivate(l.c)]
    ELSE l

\* launcher_weston_launch_open, after the receive loop: the reply m is checked
open_reply_NoSentinelCheck(m) ==
    IF m.ret < 0 THEN [ret |-> -1, outcome |-> "OpenRejected"]
    ELSE IF m.anc.kind # "rights" THEN [ret |-> -1, outcome |-> "MissingDescriptor"]
    ELSE [ret |-> m.anc.fd, outcome |-> "ok"]

\* CMSG_DATA of an absent or foreign control message: whatever the buffer holds
open_reply_NoCmsgCheck(m) ==
    IF m.ret < 0 THEN [ret |-> -1, outcome |-> "OpenRejected"]
    ELSE IF m.anc.kind # "rights" THEN [ret |-> 0, outcome |-> "ok"]
    ELSE IF m.anc.fd = -1 THEN [ret |-> -1, outcome |-> "MissingDescriptor"]
    ELSE [ret |-> m.anc.fd, outcome |-> "ok"]

open_reply(m) ==
    IF m.ret < 0 THEN [ret |-> -1, outcome |-> "OpenRejected"]
    ELSE IF m.anc.kind # "rights" THEN [ret |-> -1, outcome |-> "MissingDescriptor"]
    ELSE IF m.anc.fd = -1 THEN [ret |-> -1, outcome |-> "MissingDescriptor"]
    ELSE [ret |-> m.anc.fd, outcome |-> "ok"]

Continue(l) == [l |-> l, done |-> FALSE, ret |-> 0, outcome |-> "waiting"]
Return(l, r) == [l |-> l, done |-> TRUE, ret |-> r.ret, outcome |-> r.outcome]
Unexpected(l) ==
    Return([l EXCEPT !.c = Effect(@, "log_unexpected_event")],
           [ret |-> -1, outcome |-> "ProtocolError"])
Defer(l) ==
    Continue([l EXCEPT !.idle = @ + 1, !.c = Effect(@, "add_idle"),
                       !.deferred_deactivate = 1])

\* a DEACTIVATE handled inside the open call
open_iter_Inline(l, len, m) ==
    IF len = SizeofEvent /\ m.id = "OPEN_REPLY" THEN Return(l, open_reply(m))
    ELSE IF len = SizeofEventId /\ m.id = "DEACTIVATE" /\ l.deferred_deactivate = 0
    THEN Continue([l EXCEPT !.c = handle_deactivate(@)])
    ELSE Unexpected(l)

\* the test of deferred_deactivate left out
open_iter_NoPendingCheck(l, len, m) ==
    IF len = SizeofEvent /\ m.id = "OPEN_REPLY" THEN Return(l, open_reply(m))
    ELSE IF len = SizeofEventId /\ m.id = "DEACTIVATE" THEN Defer(l)
    ELSE Unexpected(l)

\* the flag set, no idle callback added
open_iter_NoIdle(l, len, m) ==
    IF len = SizeofEvent /\ m.id = "OPEN_REPLY" THEN Return(l, open_reply(m))
    ELSE IF len = SizeofEventId /\ m.id = "DEACTIVATE" /\ l.deferred_deactivate = 0
    THEN Continue([l EXCEPT !.deferred_deactivate = 1])
    ELSE Unexpected(l)

\* one turn of the receive loop of launcher_weston_launch_open: recvmsg()
\* returned len and left m in event and the control buffer
open_iter(l, len, m) ==
    IF len = SizeofEvent /\ m.id = "OPEN_REPLY" THEN Return(l, open_reply(m))
    ELSE IF len = SizeofEventId /\ m.id = "DEACTIVATE" /\ l.deferred_deactivate = 0
    THEN Defer(l)
    ELSE Unexpected(l)

Exit(l, status) ==
    [l |-> [l EXCEPT !.c = Effect(@, "exit")], read |-> FALSE, exited |-> TRUE,
     status |-> status % 256]
Handled(l, read) == [l |-> l, read |-> read, exited |-> FALSE, status |-> 0]

\* switch (ret) of launcher_weston_launch_data
data_switch(l, ret) ==
    IF ret = "ACTIVATE"
    THEN [l EXCEPT !.c = wl_signal_emit([@ EXCEPT !.session_active = TRUE])]
    ELSE IF ret = "DEACTIVATE" THEN [l EXCEPT !.c = handle_deactivate(@)]
    ELSE [l EXCEPT !.c = Effect(@, "log_unexpected_event")]

\* the deferred notification looked at before the hangup
launcher_weston_launch_data_DeferredFirst(l, msk, ret, io) ==
    IF l.deferred_deactivate # 0
    THEN Handled([l EXCEPT !.deferred_deactivate = 0, !.c = handle_deactivate(@)], FALSE)
    ELSE IF msk \cap {"HANGUP", "ERROR"} # {}
    THEN Exit([l EXCEPT !.c = launcher_weston_launch_restore(l, io)], -1)
    ELSE Handled(data_switch([l EXCEPT !.c = Effect(@, "recv")], ret), TRUE)

\* the deferred notification handled and the socket read in the same dispatch
launcher_weston_launch_data_ReadAfterDeferred(l, msk, ret, io) ==
    IF msk \cap {"HANGUP", "ERROR"} # {}
    THEN Exit([l EXCEPT !.c = launcher_weston_launch_restore(l, io)], -1)
    ELSE IF l.deferred_deactivate # 0
    THEN Handled(data_switch([l EXCEPT !.deferred_deactivate = 0,
                                       !.c = Effect(handle_deactivate(@), "recv")], ret),
                 TRUE)
    ELSE Handled(data_switch([l EXCEPT !.c = Effect(@, "recv")], ret), TRUE)

\* launcher_weston_launch_data(fd, mask, data); ret is what recv() leaves in
\* ret if it is called
launcher_weston_launch_data(l, msk, ret, io) ==
    IF msk \cap {"HANGUP", "ERROR"} # {}
    THEN Exit([l EXCEPT !.c = launcher_weston_launch_restore(l, io)], -1)
    ELSE IF l.deferred_deactivate # 0
    THEN Handled([l EXCEPT !.deferred_deactivate = 0, !.c = handle_deactivate(@)], FALSE)
    ELSE Handled(data_switch([l EXCEPT !.c = Effect(@, "recv")], ret), TRUE)

\* the descriptors closed in the effects s
Closed(s) == { s[i].arg : i \in { j \in DOMAIN s : s[j].ev \in {"close_fd", "close_tty"} } }

\* launcher_weston_launch_destroy
launcher_weston_launch_destroy(l, sock, term, io) ==
    LET c1 == IF sock # -1
              THEN Effect(Syscall(l.c, "close_fd", sock, FALSE), "wl_event_source_remove")
              ELSE launcher_weston_launch_restore(l, io)
        c2 == IF term >= 0 THEN Syscall(c1, "close_tty", term, FALSE) ELSE c1
    IN  [l EXCEPT !.c = Effect(c2, "free")]

(* ------------------------------ connect ------------------------------ *)
EnvNames == {"WESTON_LAUNCHER_SOCK", "WESTON_TTY_FD"}

\* getenv() of a variable that is not set
Null == "(null)"

\* ENOMEM of <errno.h>
ENOMEM == 12

\* safe_strtoint(): the whole string is a decimal number that fits an int
safe_strtoint(e) ==
    IF e \in {"3", "4", "9"}
    THEN [ok |-> TRUE, val |-> CASE e = "3" -> 3 [] e = "4" -> 4 [] e = "9" -> 9]
    ELSE [ok |-> FALSE, val |-> 0]

\* launcher_weston_environment_get_fd(name); w = [env, fds, c]: the
\* environment, the open descriptors (fcntl(F_GETFD) fails on any other) and
\* the effects so far
launcher_weston_environment_get_fd(w, name) ==
    LET e == w.env[name]
        p == safe_strtoint(e)
    IN  IF e = Null \/ ~p.ok
        THEN [w |-> [w EXCEPT !.c = Effect(@, "log_no_launcher_fd")], fd |-> -1]
        ELSE IF p.val \notin w.fds
        THEN [w |-> [w EXCEPT !.c = Effect(Syscall(@, "fcntl_F_GETFD", p.val, TRUE),
                                           "log_no_fd_flags")],
              fd |-> -1]
        ELSE [w |-> [w EXCEPT !.env[name] = Null,
                              !.c = Effect(Syscall(Syscall(@, "fcntl_F_GETFD", p.val, FALSE),
                                                   "fcntl_F_SETFD", p.val, FALSE),
                                           "unsetenv")],
              fd |-> p.val]

\* launcher_weston_launch_connect(): mallocOk, sourceOk: malloc() and
\* wl_event_loop_add_fd() return non-NULL.  The result: what is returned,
\* whether *out was assigned, the launcher's fields as they were set (fd and
\* tty hold what was read from the environment also where the launcher has
\* been freed), the environment and the effects.
launcher_weston_launch_connect(w, mallocOk, sourceOk) ==
    LET none == [fd |-> -1, tty |-> -1, kb_mode |-> 0, drm_fd |-> -1,
                 deferred_deactivate |-> 0]
        s == launcher_weston_environment_get_fd(w, "WESTON_LAUNCHER_SOCK")
        t == launcher_weston_environment_get_fd(s.w, "WESTON_TTY_FD")
        l == [none EXCEPT !.fd = s.fd, !.tty = t.fd, !.kb_mode = K_UNICODE]
    IN  IF ~mallocOk
        THEN [ret |-> -ENOMEM, out |-> FALSE, l |-> none, w |-> w]
        ELSE IF s.fd = -1
        THEN [ret |-> -1, out |-> FALSE, l |-> none,
              w |-> [s.w EXCEPT !.c = Effect(@, "free")]]
        ELSE IF ~sourceOk
        THEN [ret |-> -ENOMEM, out |-> FALSE, l |-> l,
              w |-> [t.w EXCEPT !.c = Effect(Effect(Effect(@, "wl_event_loop_add_fd"),
                                                    "free"), "log_no_event_source")]]
        ELSE [ret |-> 0, out |-> TRUE, l |-> l,
              w |-> [t.w EXCEPT !.c = Effect(@, "wl_event_loop_add_fd")]]

(* ------------------------------- state -------------------------------- *)
NoCall == [entry_deferred |-> 0, deferred_here |-> 0, send_ok |-> TRUE,
           reply |-> NoReply, ret |-> 0, outcome |-> "none"]

\* the connection as launcher_weston_launch_connect leaves it, the session active
Init ==
    /\ env = [n \in EnvNames |-> Null]
    /\ open_fds = {3, 4}
    /\ out = TRUE
    /\ conn = "live"
    /\ pc = "loop"
    /\ fd = 3
    /\ tty = 4
    /\ kb_mode = K_UNICODE
    /\ drm_fd = -1
    /\ deferred_deactivate = 0
    /\ idle = 0
    /\ session_active = TRUE
    /\ chan = <<>>
    /\ helper = "up"
    /\ outstanding = 0
    /\ fx = <<>>
    /\ op = "connect"
    /\ mask = {}
    /\ call = NoCall
    /\ opens = 0
    /\ notifs = 0
    /\ recvfails = 0
    /\ undelivered = 0
    /\ unacked = 0
    /\ exit_status = 0

Running == conn = "live"

\* a step of the helper: the record of the last launcher operation is dropped
\* (of the open call too, unless it is still waiting)
Observed ==
    /\ op' = "helper"
    /\ fx' = <<>>
    /\ mask' = {}
    /\ call' = IF pc = "open_wait" THEN call ELSE NoCall

(* ------------------------------ the helper ---------------------------- *)
HelperNotify ==
    /\ Running /\ helper = "up"
    /\ notifs < MaxNotifs /\ Len(chan) < MaxQueue
    /\ notifs' = notifs + 1
    /\ \E id \in {"ACTIVATE", "DEACTIVATE"} : chan' = Append(chan, id)
    /\ Observed
    /\ UNCHANGED <<conn, pc, fd, tty, kb_mode, drm_fd, deferred_deactivate, idle,
                   session_active, helper,
                   outstanding, opens, recvfails, undelivered, unacked, exit_status>>
    /\ UNCHANGED <<env, open_fds, out>>

HelperReply ==
    /\ Running /\ helper = "up"
    /\ outstanding > 0 /\ Len(chan) < MaxQueue
    /\ chan' = Append(chan, "OPEN_REPLY")
    /\ outstanding' = outstanding - 1
    /\ Observed
    /\ UNCHANGED <<conn, pc, fd, tty, kb_mode, drm_fd, deferred_deactivate, idle,
                   session_active, helper,
                   opens, notifs, recvfails, undelivered, unacked, exit_status>>
    /\ UNCHANGED <<env, open_fds, out>>

\* the helper stops sending (hangs), or dies and its end of the socket closes
HelperStop ==
    /\ Running /\ helper = "up"
    /\ helper' \in {"hung", "closed"}
    /\ Observed
    /\ UNCHANGED <<conn, pc, fd, tty, kb_mode, drm_fd, deferred_deactivate, idle,
                   session_active, chan,
                   outstanding, opens, notifs, recvfails, undelivered, unacked,
                   exit_status>>
    /\ UNCHANGED <<env, open_fds, out>>

Helper == HelperNotify \/ HelperReply \/ HelperStop

(* ---------------------------- the compositor -------------------------- *)
\* launcher_weston_launch_open up to its first recvmsg(): the OPEN is sent,
\* the result of the send is dropped
OpenSend ==
    /\ Running /\ pc = "loop" /\ opens < MaxOpens
    /\ \E outs \in SendOutcomes :
          LET r == launcher_weston_launch_send(Comp, "send_OPEN", outs) IN
          /\ r.ok => helper # "closed"
          /\ call' = [NoCall EXCEPT !.entry_deferred = deferred_deactivate,
                                    !.send_ok = r.ok, !.outcome = "waiting"]
          /\ outstanding' = IF r.ok THEN outstanding + 1 ELSE outstanding
          /\ fx' = r.c.fx
    /\ pc' = "open_wait"
    /\ opens' = opens + 1
    /\ op' = "open_send"
    /\ mask' = {}
    /\ UNCHANGED <<conn, fd, tty, kb_mode, drm_fd, deferred_deactivate, idle,
                   session_active, chan, helper,
                   notifs, recvfails, undelivered, unacked, exit_status>>
    /\ UNCHANGED <<env, open_fds, out>>

\* the effects of one turn of the receive loop on the state
OpenTurn(len, m, taken) ==
    LET r == open_iter(Launcher, len, m) IN
    /\ deferred_deactivate' = r.l.deferred_deactivate
    /\ idle' = r.l.idle
    /\ session_active' = r.l.c.session_active
    /\ fx' = r.l.c.fx
    /\ pc' = IF r.done THEN "loop" ELSE "open_wait"
    /\ call' = [call EXCEPT !.ret = r.ret, !.outcome = r.outcome,
                            !.reply = IF r.done /\ r.outcome # "ProtocolError" THEN m ELSE @,
                            !.deferred_here = @ + Count(r.l.c.fx, "add_idle")]
    /\ undelivered' = undelivered + Count(r.l.c.fx, "add_idle")
    /\ unacked' = unacked + (IF taken /\ m.id = "DEACTIVATE" THEN 1 ELSE 0)
                          - Count(r.l.c.fx, "send_DEACTIVATE_DONE")

\* the messages recvmsg() can return for the queued message id
Received(id) == IF id = "OPEN_REPLY" THEN Replies ELSE {Notification(id)}

\* recvmsg() returns in launcher_weston_launch_open: with the next message,
\* or with 0 / -1 once the helper's end is closed and nothing is queued
OpenRecv ==
    /\ Running /\ pc = "open_wait"
    /\ \/ /\ chan # <<>>
          /\ \E m \in Received(Head(chan)) : OpenTurn(m.len, m, TRUE)
          /\ chan' = Tail(chan)
       \/ /\ chan = <<>> /\ helper = "closed"
          /\ \E len \in {-1, 0}, id \in EventIds :
                OpenTurn(len, [NoReply EXCEPT !.id = id], FALSE)
          /\ chan' = chan
    /\ op' = "open_recv"
    /\ mask' = {}
    /\ UNCHANGED <<conn, fd, tty, kb_mode, drm_fd, helper, outstanding, opens, notifs,
                   recvfails,
                   exit_status>>
    /\ UNCHANGED <<env, open_fds, out>>

\* the event loop runs one idle callback
IdleDeactivate ==
    /\ Running /\ pc = "loop" /\ idle > 0
    /\ LET l == idle_deactivate(Launcher) IN
          /\ deferred_deactivate' = l.deferred_deactivate
          /\ session_active' = l.c.session_active
          /\ fx' = l.c.fx
          /\ undelivered' = undelivered - Count(l.c.fx, "send_DEACTIVATE_DONE")
          /\ unacked' = unacked - Count(l.c.fx, "send_DEACTIVATE_DONE")
    /\ idle' = idle - 1
    /\ op' = "idle"
    /\ mask' = {}
    /\ call' = NoCall
    /\ UNCHANGED <<conn, pc, fd, tty, kb_mode, drm_fd, chan, helper, outstanding,
                   opens, notifs,
                   recvfails, exit_status>>
    /\ UNCHANGED <<env, open_fds, out>>

\* the masks the event loop can dispatch the socket's source with
Masks ==
    { m \in SUBSET {"READABLE", "HANGUP", "ERROR"} :
        /\ m # {}
        /\ ("HANGUP" \in m) <=> (helper = "closed")
        /\ "ERROR" \in m => "HANGUP" \in m
        /\ chan # <<>> => "READABLE" \in m
        /\ "READABLE" \in m => (chan # <<>> \/ recvfails < MaxRecvFail) }

\* the event loop dispatches launcher_weston_launch_data; Ios: the results
\* the ioctl() calls of a restoration can have
DataDispatch(Ios) ==
    /\ Running /\ pc = "loop"
    /\ \E msk \in Masks :
       \E io \in (IF "HANGUP" \in msk THEN Ios ELSE {IoOk}) :
       \E junk \in (IF chan = <<>> /\ "HANGUP" \notin msk THEN EventIds ELSE {"OPEN_REPLY"}) :
          LET got == chan # <<>>
              ret == IF got THEN Head(chan) ELSE junk
              r == launcher_weston_launch_data(Launcher, msk, ret, io)
              dones == Count(r.l.c.fx, "send_DEACTIVATE_DONE")
          IN
          /\ mask' = msk
          /\ deferred_deactivate' = r.l.deferred_deactivate
          /\ session_active' = r.l.c.session_active
          /\ fx' = r.l.c.fx
          /\ conn' = IF r.exited THEN "exited" ELSE conn
          /\ open_fds' = IF r.exited THEN {} ELSE open_fds
          /\ exit_status' = IF r.exited THEN r.status ELSE exit_status
          /\ chan' = IF r.exited THEN <<>>
                     ELSE IF r.read /\ got THEN Tail(chan) ELSE chan
          /\ recvfails' = IF r.read /\ ~got THEN recvfails + 1 ELSE recvfails
          /\ undelivered' = IF r.read THEN undelivered ELSE undelivered - dones
          /\ unacked' = unacked + (IF r.read /\ got /\ ret = "DEACTIVATE" THEN 1 ELSE 0)
                                - dones
    /\ op' = "on_readable"
    /\ call' = NoCall
    /\ UNCHANGED <<pc, fd, tty, kb_mode, drm_fd, idle, helper, outstanding, opens,
                   notifs>>
    /\ UNCHANGED <<env, out>>

\* the dispatch in the course of the protocol: KDSKBMUTE fails or not, the
\* other calls succeed
OnReadable == DataDispatch(MuteResults)

\* the compositor shuts the launcher down
Destroy ==
    /\ Running /\ pc = "loop"
    /\ \E io \in (IF fd = -1 THEN IoResults ELSE {IoOk}) :
          LET l == launcher_weston_launch_destroy(Launcher, fd, tty, io) IN
          /\ fx' = l.c.fx
          /\ open_fds' = open_fds \ Closed(l.c.fx)
    /\ conn' = "destroyed"
    /\ chan' = <<>>
    /\ op' = "destroy"
    /\ mask' = {}
    /\ call' = NoCall
    /\ UNCHANGED <<pc, fd, tty, kb_mode, drm_fd, deferred_deactivate, idle,
                   session_active, helper,
                   outstanding, opens, notifs, recvfails, undelivered, unacked,
                   exit_status>>
    /\ UNCHANGED <<env, out>>

Next ==
    \/ HelperNotify
    \/ HelperReply
    \/ HelperStop
    \/ OpenSend
    \/ OpenRecv
    \/ IdleDeactivate
    \/ OnReadable
    \/ Destroy

Spec == Init /\ [][Next]_vars

(* ------------------- from the environment to the end ------------------ *)
\* what the two variables can hold when the compositor starts: nothing, no
\* number, the number of a descriptor that is not open, or the number of the
\* inherited descriptor
ConnectInit ==
    /\ env \in [EnvNames -> {Null, "x", "9", "3", "4"}]
    /\ env["WESTON_LAUNCHER_SOCK"] # "4" /\ env["WESTON_TTY_FD"] # "3"
    /\ open_fds = {3, 4}
    /\ out = FALSE
    /\ conn = "none"
    /\ pc = "loop"
    /\ fd = -1
    /\ tty = -1
    /\ kb_mode = 0
    /\ drm_fd = -1
    /\ deferred_deactivate = 0
    /\ idle = 0
    /\ session_active = TRUE
    /\ chan = <<>>
    /\ helper = "up"
    /\ outstanding = 0
    /\ fx = <<>>
    /\ op = "start"
    /\ mask = {}
    /\ call = NoCall
    /\ opens = 0
    /\ notifs = 0
    /\ recvfails = 0
    /\ undelivered = 0
    /\ unacked = 0
    /\ exit_status = 0

\* the compositor calls launcher_weston_launch_connect; the value returned is
\* logged last
Connect ==
    /\ conn = "none"
    /\ \E mallocOk \in BOOLEAN, sourceOk \in BOOLEAN :
          LET r == launcher_weston_launch_connect(
                       [env |-> env, fds |-> open_fds, c |-> Comp], mallocOk, sourceOk)
          IN
          /\ conn' = IF r.ret = 0 THEN "live" ELSE "failed"
          /\ out' = r.out
          /\ env' = r.w.env
          /\ fd' = r.l.fd
          /\ tty' = r.l.tty
          /\ kb_mode' = r.l.kb_mode
          /\ drm_fd' = r.l.drm_fd
          /\ deferred_deactivate' = r.l.deferred_deactivate
          /\ fx' = Syscall(r.w.c, "return", r.ret, r.ret # 0).fx
    /\ op' = "connect"
    /\ UNCHANGED <<open_fds, pc, idle, session_active, chan, helper, outstanding, mask,
                   call, opens, notifs, recvfails, undelivered, unacked, exit_status>>

\* the dispatch with every result the ioctl() calls can have
OnReadableAnyIo == DataDispatch(IoResults)

ConnectNext ==
    \/ Connect
    \/ HelperStop
    \/ OnReadableAnyIo
    \/ Destroy

ConnectSpec == ConnectInit /\ [][ConnectNext]_vars

\* idle callbacks run and a blocked recvmsg() returns when it can; the helper,
\* while up, goes on (answers, notifies, hangs or dies)
LiveSpec ==
    /\ Spec
    /\ WF_vars(IdleDeactivate)
    /\ WF_vars(OpenRecv)
    /\ WF_vars(Helper)

(* ------------------------------ properties ---------------------------- *)
Dones(s) == Count(s, "send_DEACTIVATE_DONE")
Signals(s) == Count(s, "session_signal")

\* the operation did nothing a session notification does
Quiet(s) == Dones(s) = 0 /\ Signals(s) = 0

\* launcher_weston_launch_open has just returned to its caller
Returned == op = "open_recv" /\ pc = "loop"

\* a deferred DEACTIVATE has just been delivered
DeferredDelivered ==
    /\ op \in {"idle", "on_readable"}
    /\ Count(fx, "recv") = 0
    /\ Dones(fx) = 1 /\ Signals(fx) = 1
    /\ deferred_deactivate = 0
    /\ ~session_active

\* C1: a DEACTIVATE deferred during an open call is never delivered more than
\* once; it is delivered only by a step taken from the event loop (the open
\* call has returned), by the idle callback or by the socket's handler, and
\* the session flag is false in the state right after the delivery.
C1_DeferredOnceAfterReturn ==
    [][ /\ undelivered' >= 0
        /\ undelivered' < undelivered =>
              /\ undelivered' = undelivered - 1
              /\ pc = "loop" /\ pc' = "loop"
              /\ op' \in {"idle", "on_readable"}
              /\ ~session_active' ]_vars

\* C1 witness: the idle callback has delivered a DEACTIVATE deferred by an
\* open call
C1_Witness ==
    /\ op = "idle" /\ DeferredDelivered
    /\ undelivered = 0 /\ opens > 0

\* an open call blocked on a helper that sends nothing more
Blocked == pc = "open_wait" /\ chan = <<>> /\ helper = "hung"

\* C2 as stated: once deferred_deactivate is set, the deactivation is
\* eventually delivered and acknowledged (in the runs in which control comes
\* back to the event loop: an open call blocked for ever is left aside).
C2_Original == (deferred_deactivate = 1) ~> (DeferredDelivered \/ Blocked)

\* C2 amended: once deferred_deactivate is set, the deactivation is eventually
\* delivered and acknowledged, unless before that the process exits on a
\* hangup, the connection is destroyed, or an open call blocks for ever on a
\* helper that has stopped sending.
C2_DeliveredUnlessGone ==
    (Running /\ deferred_deactivate = 1) ~> (DeferredDelivered \/ ~Running \/ Blocked)

\* C2 witness: the deferred DEACTIVATE delivered after the open call that
\* deferred it
C2_Witness == DeferredDelivered /\ undelivered = 0 /\ unacked = 0 /\ opens = 1

\* C3 as stated: DEACTIVATE_DONE is never sent more often than DEACTIVATE is
\* consumed, and once nothing is deferred every consumed DEACTIVATE has been
\* acknowledged.
C3_Original ==
    /\ unacked >= 0
    /\ (Running /\ pc = "loop" /\ deferred_deactivate = 0) => unacked = 0

\* C4: from the sending of OPEN to the return of the open call the session
\* flag keeps its value, no session signal is emitted and no DEACTIVATE_DONE
\* is sent.
C4_OpenIsQuiet ==
    [][ (pc = "open_wait" \/ pc' = "open_wait") =>
            (session_active' = session_active /\ Quiet(fx')) ]_vars

\* C4 witness: an open call has returned a descriptor after a DEACTIVATE
\* arrived during its wait
C4_Witness ==
    /\ Returned /\ call.outcome = "ok" /\ call.deferred_here = 1
    /\ session_active

\* C5: at most one DEACTIVATE is pending, and a DEACTIVATE that is received
\* while one is deferred and undelivered makes the operation that receives
\* it, an open call, fail as on a protocol error.
C5_SecondDeactivateFails ==
    [][ /\ undelivered' \in {0, 1}
        /\ ( /\ deferred_deactivate = 1 /\ conn' = "live"
             /\ chan # <<>> /\ Head(chan) = "DEACTIVATE" /\ chan' = Tail(chan) ) =>
              /\ op' = "open_recv" /\ pc' = "loop"
              /\ call'.ret = -1 /\ call'.outcome = "ProtocolError" ]_vars

\* C5 witness: an open call has failed on a second DEACTIVATE, the first still
\* deferred
C5_Witness ==
    /\ Returned /\ call.outcome = "ProtocolError"
    /\ deferred_deactivate = 1 /\ unacked = 2

\* C6 as stated: a successful open call returns a descriptor other than -1
\* and leaves deferred_deactivate clear.
C6_Original ==
    (Returned /\ call.outcome = "ok") => (call.ret # -1 /\ deferred_deactivate = 0)

\* C6 amended: a successful open call returns a descriptor other than -1;
\* deferred_deactivate is clear at the return exactly if it was clear when the
\* call began and no DEACTIVATE arrived during the wait, and is set otherwise.
C6_SuccessfulOpen ==
    (Returned /\ call.outcome = "ok") =>
        /\ call.ret # -1
        /\ (deferred_deactivate = 0) <=>
               (call.entry_deferred = 0 /\ call.deferred_here = 0)

\* C6 witness: a successful return with the DEACTIVATE of this call deferred
C6_Witness ==
    /\ Returned /\ call.outcome = "ok" /\ call.ret = 7
    /\ call.entry_deferred = 0 /\ call.deferred_here = 1 /\ deferred_deactivate = 1

BadAnc(a) == a.kind # "rights" \/ a.fd = -1

\* C7: an OPEN_REPLY with a negative result makes the open call fail
\* (OpenRejected); one with a result >= 0 and no ancillary data, foreign
\* ancillary data or the descriptor -1 makes it fail (MissingDescriptor); the
\* call returns -1 in each of these cases.
C7_ReplyValidated ==
    (Returned /\ call.reply.id = "OPEN_REPLY") =>
        /\ call.reply.ret < 0 => (call.ret = -1 /\ call.outcome = "OpenRejected")
        /\ (call.reply.ret >= 0 /\ BadAnc(call.reply.anc)) =>
               (call.ret = -1 /\ call.outcome = "MissingDescriptor")

\* C7 witness: a reply with result 0 and no ancillary data has been refused
C7_Witness ==
    /\ Returned /\ call.reply = OpenReply(0, NoAnc)
    /\ call.outcome = "MissingDescriptor" /\ call.ret = -1

\* C8 as stated: when the sending of OPEN fails for good, the open call fails
\* with a transport error and does not enter its receive loop.
C8_Original ==
    (op = "open_send" /\ ~call.send_ok) =>
        (pc = "loop" /\ call.ret = -1 /\ call.outcome = "TransportError")

\* C9: whenever DEACTIVATE_DONE is sent the session flag is already false and
\* the session signal has been emitted with the flag false; the flag is false
\* after the operation.
C9_AckAfterSignal ==
    \A i \in DOMAIN fx :
        fx[i].ev = "send_DEACTIVATE_DONE" =>
            /\ ~fx[i].active
            /\ \E j \in 1..(i - 1) : fx[j].ev = "session_signal" /\ ~fx[j].active
            /\ ~session_active

\* C9 witness: a DEACTIVATE read while the session was active has been
\* acknowledged
C9_Witness ==
    /\ op = "on_readable" /\ Len(fx) = 3
    /\ fx[1].ev = "recv" /\ fx[1].active
    /\ fx[3].ev = "send_DEACTIVATE_DONE" /\ ~fx[3].active

\* the restoration has run and the process has then exited
RestoredThenExit(s) ==
    /\ s # <<>> /\ s[Len(s)].ev = "exit"
    /\ \A name \in {"ioctl_KDSKBMUTE", "ioctl_KDSETMODE", "drmDropMaster", "ioctl_VT_SETMODE"} :
          \E i \in 1..(Len(s) - 1) : s[i].ev = name

\* C10: a dispatch of the socket's handler with a hangup or an error runs the
\* restoration and ends the process with a nonzero status; it reads nothing
\* from the socket, delivers no notification and sends no DEACTIVATE_DONE.
C10_HangupIsFatal ==
    [][ (op' = "on_readable" /\ mask' \cap {"HANGUP", "ERROR"} # {}) =>
            /\ conn' = "exited" /\ exit_status' # 0
            /\ RestoredThenExit(fx')
            /\ Quiet(fx') /\ Count(fx', "recv") = 0
            /\ UNCHANGED <<session_active, deferred_deactivate, undelivered, unacked>> ]_vars

\* C10 witness: the process has exited on a hangup with a DEACTIVATE deferred
C10_Witness ==
    /\ conn = "exited" /\ exit_status = 255
    /\ "HANGUP" \in mask /\ deferred_deactivate = 1 /\ session_active

(* ------------------ restoration, connect and destroy ------------------ *)
RestoreCalls ==
    {"ioctl_KDSKBMUTE", "ioctl_KDSKBMODE", "ioctl_KDSETMODE", "drmDropMaster",
     "ioctl_VT_SETMODE"}

IsRestoreCall(e) == e.ev \in RestoreCalls

\* the system calls of the restoration in the effects s, in order
RestoreSteps(s) == SelectSeq(s, IsRestoreCall)

StepNames(s) == [i \in DOMAIN s |-> s[i].ev]

\* the restoration has run in the last operation
Restored == RestoreSteps(fx) # <<>>

\* C11 as stated: a restoration attempts the restoring of the keyboard mode
\* to the cached value and the unmuting, then KDSETMODE, then drmDropMaster,
\* then VT_SETMODE, whatever succeeds or fails.
C11_Original ==
    Restored =>
        /\ StepNames(RestoreSteps(fx)) \in
              { <<"ioctl_KDSKBMUTE", "ioctl_KDSKBMODE", "ioctl_KDSETMODE",
                  "drmDropMaster", "ioctl_VT_SETMODE">>,
                <<"ioctl_KDSKBMODE", "ioctl_KDSKBMUTE", "ioctl_KDSETMODE",
                  "drmDropMaster", "ioctl_VT_SETMODE">> }
        /\ \A i \in DOMAIN fx : fx[i].ev = "ioctl_KDSKBMODE" => fx[i].arg = kb_mode

\* C11 amended: a restoration attempts, in this order, the unmuting
\* (KDSKBMUTE); the restoring of the keyboard mode to the cached value
\* (KDSKBMODE) exactly if the unmuting failed; KDSETMODE; drmDropMaster;
\* VT_SETMODE.  The last three are attempted whatever succeeded or failed
\* before them.
C11_RestoreSteps ==
    Restored =>
        LET t == RestoreSteps(fx) IN
        /\ StepNames(t) =
              IF t[1].failed
              THEN <<"ioctl_KDSKBMUTE", "ioctl_KDSKBMODE", "ioctl_KDSETMODE",
                     "drmDropMaster", "ioctl_VT_SETMODE">>
              ELSE <<"ioctl_KDSKBMUTE", "ioctl_KDSETMODE", "drmDropMaster",
                     "ioctl_VT_SETMODE">>
        /\ \A i \in DOMAIN t : t[i].ev = "ioctl_KDSKBMODE" => t[i].arg = kb_mode

\* C11 witness: a restoration in which every ioctl() failed has gone through
\* to VT_SETMODE
C11_Witness ==
    /\ conn = "exited" /\ Len(RestoreSteps(fx)) = 5
    /\ \A i \in DOMAIN fx : fx[i].ev \in RestoreCalls => fx[i].failed

\* C12 as stated: after an open call has returned a descriptor, drm_fd, the
\* descriptor the restoration passes to drmDropMaster, is that descriptor.
C12_Original == (Returned /\ call.outcome = "ok") => drm_fd = call.ret

\* C13 as stated: a destroy with the helper's end of the socket open closes
\* the socket, removes the source and does not run the restoration; a destroy
\* after the helper's end has closed runs the restoration once; the terminal
\* descriptor is closed last in both.
C13_Original ==
    op = "destroy" =>
        /\ helper # "closed" =>
              /\ Count(fx, "close_fd") = 1 /\ Count(fx, "wl_event_source_remove") = 1
              /\ ~Restored
        /\ helper = "closed" => Count(fx, "ioctl_KDSKBMUTE") = 1
        /\ Len(fx) >= 2 /\ fx[Len(fx) - 1].ev = "close_tty"

\* C14 as stated: a connect that could not get the socket or could not get
\* the terminal descriptor from the environment fails and assigns no
\* connection; it succeeds only with both.
C14_Original ==
    (op = "connect" /\ (fd = -1 \/ tty = -1)) => (conn = "failed" /\ ~out)

\* C15 as stated: a connect that fails has closed every descriptor it got
\* from the environment and has not assigned *out.
C15_Original ==
    (op = "connect" /\ conn = "failed") =>
        /\ ~out
        /\ ({fd, tty} \ {-1}) \cap open_fds = {}

(* ------------------- the socket's handler, idle callbacks -------------- *)
NoHangup(m) == m \cap {"HANGUP", "ERROR"} = {}

\* C16: a dispatch of the socket's handler without hangup or error, with
\* deferred_deactivate set, clears the flag, delivers the deactivation and
\* reads nothing: the queued messages are as before the dispatch.
C16_DeferredNoRead ==
    [][ (op' = "on_readable" /\ NoHangup(mask') /\ deferred_deactivate = 1) =>
            /\ deferred_deactivate' = 0
            /\ ~session_active' /\ Signals(fx') = 1 /\ Dones(fx') = 1
            /\ Count(fx', "recv") = 0
            /\ chan' = chan /\ recvfails' = recvfails ]_vars

\* C16 witness: the deferred deactivation delivered by the handler, a message
\* still queued
C16_Witness ==
    /\ op = "on_readable" /\ DeferredDelivered
    /\ chan # <<>> /\ mask = {"READABLE"}

\* C17 as stated: with nothing deferred and no hangup, a dispatch consumes
\* one message: ACTIVATE sets the flag and emits the signal and sends nothing;
\* DEACTIVATE clears the flag, emits the signal and acknowledges; anything
\* else, a read that returned no message included, leaves the flag, emits no
\* signal and sends nothing.
C17_Original ==
    [][ (op' = "on_readable" /\ NoHangup(mask') /\ deferred_deactivate = 0) =>
            LET got == chan # <<>>
                id == IF got THEN Head(chan) ELSE "none"
            IN
            /\ got => chan' = Tail(chan)
            /\ id = "ACTIVATE" =>
                  (session_active' /\ Signals(fx') = 1 /\ Dones(fx') = 0)
            /\ id = "DEACTIVATE" =>
                  (~session_active' /\ Signals(fx') = 1 /\ Dones(fx') = 1)
            /\ id \notin {"ACTIVATE", "DEACTIVATE"} =>
                  (session_active' = session_active /\ Quiet(fx')) ]_vars

\* C18: while the connection lives, deferred_deactivate set implies that an
\* idle_deactivate callback is scheduled; a callback that runs with the flag
\* clear does nothing.
C18_DeferredHasIdle ==
    [][ /\ (Running' /\ deferred_deactivate' = 1) => idle' >= 1
        /\ (op' = "idle" /\ deferred_deactivate = 0) =>
              /\ fx' = <<>>
              /\ UNCHANGED <<deferred_deactivate, session_active, chan, undelivered,
                             unacked>> ]_vars

\* C18 witness: the flag set by a second open call while the callback of a
\* deactivation the handler has delivered is still scheduled
C18_Witness == Running /\ deferred_deactivate = 1 /\ idle = 2 /\ undelivered = 1

\* C19 as stated: no state in which the connection is destroyed and an
\* idle_deactivate callback pointing to it is still scheduled.
C19_Original == conn = "destroyed" => idle = 0

\* OPEN requests that reached the helper and whose reply no one has read
Unread == outstanding + Count([i \in DOMAIN chan |-> [ev |-> chan[i]]], "OPEN_REPLY")

\* C20 as stated: the OPEN_REPLY an open call returns a descriptor from
\* answers the OPEN of that call: the call's OPEN has reached the helper and
\* no OPEN that reached the helper is left without its reply read.
C20_Original ==
    (Returned /\ call.outcome = "ok") => (call.send_ok /\ Unread = 0)

====
